---------------------------- MODULE Spec2Model ----------------------------
(***************************************************************************)
(* Model of QuantLibWrapper/Swaption.py: the Swaption facade, the          *)
(* extraction of the coupon-bond-option representation of a swap           *)
(* (bondOptionDetails), the Hull-White cross-check (npvHullWhite) and the  *)
(* calibration driver (HullWhiteModelFromSwaption).                        *)
(*                                                                         *)
(* Numbers.  Dates are integer day serials.  A time is a year fraction     *)
(* under Actual/365 (Fixed); it is kept as its numerator, a number of      *)
(* days (the denominator 365 is the same everywhere).  Discount factors    *)
(* are integers in units of 1/DfScale, rate * accrualPeriod products are   *)
(* in units of 1/RateScale, amounts and prices are integers and a          *)
(* quotient is rounded down (fixed point in place of floating point).      *)
(* Volatilities live on a grid whose step is half the root finder's        *)
(* tolerance on the independent variable.                                  *)
(***************************************************************************)
EXTENDS Integers, Sequences, FiniteSets, TLC

VARIABLES swaption, pc, cal, result, calls

vars == <<swaption, pc, cal, result, calls>>

---------------------------------------------------------------------------
(* Bounds of the model and scales of the fixed-point arithmetic.           *)

RefDate == 10
StartLag == 4
FloatTenor == 2
FixedTenor == 3
MaxFloat == 2
MaxFixed == 2
DfScale == 100
RateScale == 100
Nominal == 1000
FloatRate == 2
FairRate == 2
AnnuityValue == 2
MaxIter == 3
BracketLowDivisor == 10
BracketHighFactor == 5
Xtol == 2

(* Inputs the operations are tried on.                                     *)
Directions == {"Payer", "Receiver"}
FixedRates == {1, 2, 3}
ExpiryLags == {2, 3}
NormalVolatilities == {0, 10, 20}
MeanReversions == {1, 2, 4}
ModelVolatilities == {0, 10}
OutFlags == {"p", "v", "pv"}

---------------------------------------------------------------------------
(* Small helpers.                                                          *)

Abs(x) == IF x < 0 THEN -x ELSE x

Max(x, y) == IF x < y THEN y ELSE x

Sign(x) == IF x < 0 THEN -1 ELSE IF x > 0 THEN 1 ELSE 0

RECURSIVE SumSeq(_)
SumSeq(s) == IF s = <<>> THEN 0 ELSE Head(s) + SumSeq(Tail(s))

---------------------------------------------------------------------------
(* The collaborators the module reads: the discount curve and the swap.    *)

(* discHandle.discount(date), in units of 1/DfScale: one per cent less per *)
(* day after the reference date.                                           *)
discount(date) == DfScale - (date - RefDate)

(* ql.Actual365Fixed().yearFraction(d1, d2), as a number of days.          *)
yearFraction(d1, d2) == d2 - d1

StartDate == RefDate + StartLag

(* The floating leg: nFloat back-to-back accrual periods from StartDate.   *)
swapFloatingLeg(nFloat) ==
    [i \in 1..nFloat |->
        [accrualStartDate |-> StartDate + (i - 1) * FloatTenor,
         accrualEndDate   |-> StartDate + i * FloatTenor,
         accrualPeriod    |-> FloatTenor,
         rate             |-> FloatRate + (i - 1),
         nominal          |-> Nominal]]

(* The fixed leg: nFixed cashflows, one every FixedTenor days.             *)
swapFixedLeg(nFixed, fixedRate) ==
    [j \in 1..nFixed |->
        [date   |-> StartDate + j * FixedTenor,
         amount |-> (Nominal * fixedRate * FixedTenor) \div RateScale + (j - 1)]]

(* A Swap object, as far as this module reads it.                          *)
Swap(payerOrReceiver, fixedRate, nFloat, nFixed) ==
    [payerOrReceiver |-> payerOrReceiver,
     fixedRate       |-> fixedRate,
     fairRate        |-> FairRate,
     annuity         |-> AnnuityValue,
     refDate         |-> RefDate,
     floatingLeg     |-> swapFloatingLeg(nFloat),
     fixedLeg        |-> swapFixedLeg(nFixed, fixedRate)]

Swaps ==
    {Swap(d, k, nf, nx) : d \in Directions, k \in FixedRates,
                          nf \in 1..MaxFloat, nx \in 0..MaxFixed}

---------------------------------------------------------------------------
(* Swaption.__init__ : the object keeps its three arguments as given.      *)

NoSwaption == [kind |-> "none"]

SwaptionNew(underlyingSwap, expiryDate, normalVolatility) ==
    [kind             |-> "Swaption",
     underlyingSwap   |-> underlyingSwap,
     exercise         |-> expiryDate,
     normalVolatility |-> normalVolatility]

---------------------------------------------------------------------------
(* Swaption.bondOptionDetails                                              *)

(* floatRow with the accrual END time of the coupon as the row's time.     *)
floatRowAtEnd(refDate, cf) ==
    <<yearFraction(refDate, cf.accrualEndDate),
      ((RateScale + cf.accrualPeriod * cf.rate) * discount(cf.accrualEndDate)
            * cf.nominal)
         \div (RateScale * discount(cf.accrualStartDate))
       - cf.nominal>>

(* One row of the local list floatLeg: the accrual START time of the       *)
(* coupon and the curve-implied amount                                     *)
(*   ((1 + accrualPeriod*rate) * discount(end)/discount(start) - 1) * nominal *)
floatRow(refDate, cf) ==
    <<yearFraction(refDate, cf.accrualStartDate),
      ((RateScale + cf.accrualPeriod * cf.rate) * discount(cf.accrualEndDate)
            * cf.nominal)
         \div (RateScale * discount(cf.accrualStartDate))
       - cf.nominal>>

(* One row of the local list fixedLeg: the time and amount of a cashflow.  *)
fixedRow(refDate, cf) == <<yearFraction(refDate, cf.date), cf.amount>>

detailsFloatLeg(swap) ==
    [i \in 1..Len(swap.floatingLeg) |-> floatRow(swap.refDate, swap.floatingLeg[i])]

detailsFixedLeg(swap) ==
    [j \in 1..Len(swap.fixedLeg) |-> fixedRow(swap.refDate, swap.fixedLeg[j])]

(* payTimes, from the two local lists and the swap's last floating coupon. *)
payTimesOf(floatLeg, fixedLeg, swap) ==
    <<floatLeg[1][1]>>
    \o [i \in 1..Len(floatLeg) |-> floatLeg[i][1]]
    \o [j \in 1..Len(fixedLeg) |-> fixedLeg[j][1]]
    \o <<yearFraction(swap.refDate,
                      swap.floatingLeg[Len(swap.floatingLeg)].accrualEndDate)>>

(* cashFlowsOf with the fixed coupons ahead of the floating coupons.       *)
cashFlowsOfFixedFirst(floatLeg, fixedLeg, swap) ==
    <<-swap.floatingLeg[1].nominal>>
    \o [j \in 1..Len(fixedLeg) |-> fixedLeg[j][2]]
    \o [i \in 1..Len(floatLeg) |-> -floatLeg[i][2]]
    \o <<swap.floatingLeg[1].nominal>>

(* cashFlowsOf with the floating coupons not negated.                      *)
cashFlowsOfUnsigned(floatLeg, fixedLeg, swap) ==
    <<-swap.floatingLeg[1].nominal>>
    \o [i \in 1..Len(floatLeg) |-> floatLeg[i][2]]
    \o [j \in 1..Len(fixedLeg) |-> fixedLeg[j][2]]
    \o <<swap.floatingLeg[1].nominal>>

(* caschflows, from the two local lists and the swap's first floating      *)
(* coupon.                                                                 *)
cashFlowsOf(floatLeg, fixedLeg, swap) ==
    <<-swap.floatingLeg[1].nominal>>
    \o [i \in 1..Len(floatLeg) |-> -floatLeg[i][2]]
    \o [j \in 1..Len(fixedLeg) |-> fixedLeg[j][2]]
    \o <<swap.floatingLeg[1].nominal>>

(* callOrPutOf with the test made on Payer.                                *)
callOrPutOfPayer(swap) == IF swap.payerOrReceiver = "Payer" THEN 1 ELSE -1

callOrPutOf(swap) == IF swap.payerOrReceiver = "Receiver" THEN 1 ELSE -1

(* The dictionary that is returned, given the two local lists.             *)
detailsOf(s, floatLeg, fixedLeg) ==
    [callOrPut  |-> callOrPutOf(s.underlyingSwap),
     strike     |-> 0,
     expiryTime |-> yearFraction(s.underlyingSwap.refDate, s.exercise),
     fixedLeg   |-> fixedLeg,
     floatLeg   |-> floatLeg,
     payTimes   |-> payTimesOf(floatLeg, fixedLeg, s.underlyingSwap),
     cashFlows  |-> cashFlowsOf(floatLeg, fixedLeg, s.underlyingSwap)]

bondOptionDetails(s) ==
    detailsOf(s, detailsFloatLeg(s.underlyingSwap),
                 detailsFixedLeg(s.underlyingSwap))

---------------------------------------------------------------------------
(* The pricing collaborators (Helpers.py, HullWhiteModel.py, the QuantLib  *)
(* engine), reduced to what their contracts say: a price is the intrinsic  *)
(* value plus a time value that grows with the volatility.                 *)

(* Helpers.Bachelier(strike, forward, vol, T, callOrPut)                   *)
Bachelier(strike, forward, vol, T, callOrPut) ==
    Max(callOrPut * (forward - strike), 0) + vol * T

(* Helpers.BachelierImpliedVol(price, strike, forward, T, callOrPut): the  *)
(* inversion fails for a price below the intrinsic value.                  *)
BachelierImpliedVol(price, strike, forward, T, callOrPut) ==
    LET timeValue == price - Max(callOrPut * (forward - strike), 0)
    IN  IF timeValue < 0
          THEN [ok |-> FALSE, error |-> "OutOfBounds"]
          ELSE [ok |-> TRUE, vol |-> timeValue \div T]

(* HullWhiteModel(yieldCurve, meanReversion, volatilityTimes,              *)
(* volatilityValues).                                                      *)
HullWhiteModel(meanReversion, volatilityTimes, volatilityValues) ==
    [meanReversion    |-> meanReversion,
     volatilityTimes  |-> volatilityTimes,
     volatilityValues |-> volatilityValues]

HWVegaScale == 4

(* HullWhiteModel.couponBondOption: the discounted value of the cashflow   *)
(* package exercised against the strike, plus a time value proportional to *)
(* the model's volatility and smaller for a larger mean reversion.         *)
couponBondOption(hwModel, expiryTime, payTimes, cashFlows, strike, callOrPut) ==
    LET bond == SumSeq([i \in 1..Len(cashFlows) |->
                          cashFlows[i] * discount(RefDate + payTimes[i])])
                  \div DfScale
    IN  Max(callOrPut * (bond - strike), 0)
        + (HWVegaScale \div hwModel.meanReversion)
            * hwModel.volatilityValues[1] * expiryTime

(* Swaption.npv : the QuantLib Bachelier engine, annuity x Bachelier with  *)
(* strike = fixed rate and forward = fair rate.                            *)
npv(s) ==
    LET sw == s.underlyingSwap
    IN  sw.annuity * Bachelier(sw.fixedRate, sw.fairRate, s.normalVolatility,
                               yearFraction(sw.refDate, s.exercise),
                               IF sw.payerOrReceiver = "Payer" THEN 1 ELSE -1)

---------------------------------------------------------------------------
(* Swaption.npvRaw : the call it makes to Bachelier and what it returns.   *)

npvRawCall(s) ==
    LET sw == s.underlyingSwap
    IN  [fn        |-> "Bachelier",
         strike    |-> sw.fixedRate,
         forward   |-> sw.fairRate,
         vol       |-> s.normalVolatility,
         T         |-> yearFraction(sw.refDate, s.exercise),
         callOrPut |-> IF sw.payerOrReceiver = "Payer" THEN 1 ELSE -1]

npvRawOf(s, c) ==
    s.underlyingSwap.annuity
      * Bachelier(c.strike, c.forward, c.vol, c.T, c.callOrPut)

npvRaw(s) == npvRawOf(s, npvRawCall(s))

---------------------------------------------------------------------------
(* Swaption.npvHullWhite(hwModel, outFlag): what it returns (ret) and the  *)
(* calls it makes to its collaborators, in order (calls).                  *)

(* The call hwModel.couponBondOption(...) of lines 83-84.                  *)
couponBondOptionCall(details) ==
    [fn         |-> "couponBondOption",
     expiryTime |-> details.expiryTime,
     payTimes   |-> details.payTimes,
     cashFlows  |-> details.cashFlows,
     strike     |-> details.strike,
     callOrPut  |-> details.callOrPut]

hullWhitePrice(hwModel, c) ==
    couponBondOption(hwModel, c.expiryTime, c.payTimes, c.cashFlows, c.strike,
                     c.callOrPut)

(* impliedVolCall with the flag of the price computation, not negated.    *)
impliedVolCallSameFlag(s, details, price) ==
    [fn        |-> "BachelierImpliedVol",
     price     |-> price \div s.underlyingSwap.annuity,
     strike    |-> s.underlyingSwap.fixedRate,
     forward   |-> s.underlyingSwap.fairRate,
     T         |-> details.expiryTime,
     callOrPut |-> details.callOrPut]

(* The call BachelierImpliedVol(...) of lines 86-87.                       *)
impliedVolCall(s, details, price) ==
    [fn        |-> "BachelierImpliedVol",
     price     |-> price \div s.underlyingSwap.annuity,
     strike    |-> s.underlyingSwap.fixedRate,
     forward   |-> s.underlyingSwap.fairRate,
     T         |-> details.expiryTime,
     callOrPut |-> -details.callOrPut]

impliedVol(c) ==
    BachelierImpliedVol(c.price, c.strike, c.forward, c.T, c.callOrPut)

(* npvHullWhiteReturn with the inversion made ahead of the test on 'p'.    *)
npvHullWhiteReturnEager(outFlag, price, cbo, ivc, vol) ==
    IF ~vol.ok
      THEN [ret |-> [kind |-> "error", error |-> vol.error],
            calls |-> <<cbo, ivc>>]
    ELSE IF outFlag = "p"
      THEN [ret |-> [kind |-> "price", price |-> price], calls |-> <<cbo, ivc>>]
    ELSE IF outFlag = "v"
      THEN [ret |-> [kind |-> "vol", vol |-> vol.vol], calls |-> <<cbo, ivc>>]
    ELSE [ret |-> [kind |-> "pair", price |-> price, vol |-> vol.vol],
          calls |-> <<cbo, ivc>>]

(* Lines 85-89: what is returned for each outFlag.  The inversion is made  *)
(* only past the return of line 85; when it fails its error is all the     *)
(* caller gets.                                                            *)
npvHullWhiteReturn(outFlag, price, cbo, ivc, vol) ==
    IF outFlag = "p"
      THEN [ret |-> [kind |-> "price", price |-> price], calls |-> <<cbo>>]
    ELSE IF ~vol.ok
      THEN [ret |-> [kind |-> "error", error |-> vol.error],
            calls |-> <<cbo, ivc>>]
    ELSE IF outFlag = "v"
      THEN [ret |-> [kind |-> "vol", vol |-> vol.vol], calls |-> <<cbo, ivc>>]
    ELSE [ret |-> [kind |-> "pair", price |-> price, vol |-> vol.vol],
          calls |-> <<cbo, ivc>>]

npvHullWhitePriced(s, details, outFlag, price) ==
    npvHullWhiteReturn(outFlag, price, couponBondOptionCall(details),
                       impliedVolCall(s, details, price),
                       impliedVol(impliedVolCall(s, details, price)))

npvHullWhiteOf(s, details, hwModel, outFlag) ==
    npvHullWhitePriced(s, details, outFlag,
                       hullWhitePrice(hwModel, couponBondOptionCall(details)))

npvHullWhite(s, hwModel, outFlag) ==
    npvHullWhiteOf(s, bondOptionDetails(s), hwModel, outFlag)

---------------------------------------------------------------------------
(* HullWhiteModelFromSwaption(swaption, meanReversion)                     *)

(* The locals before the root search: the two one-element arrays and the   *)
(* bracket 0.1*volatilityValues[0] .. 5.0*volatilityValues[0], computed    *)
(* before the first evaluation of the objective.                           *)
calibrationLocalsOf(meanReversion, volatilityTimes, volatilityValues) ==
    [active           |-> TRUE,
     meanReversion    |-> meanReversion,
     volatilityTimes  |-> volatilityTimes,
     volatilityValues |-> volatilityValues,
     xa               |-> volatilityValues[1] \div BracketLowDivisor,
     xb               |-> BracketHighFactor * volatilityValues[1],
     lastEval         |-> [sigma |-> 0, priced |-> 0],
     lastValue        |-> 0]

calibrationLocals(s, meanReversion) ==
    calibrationLocalsOf(meanReversion, <<bondOptionDetails(s).expiryTime>>,
                        <<s.normalVolatility>>)

(* objective(sigma): writes sigma into the shared array, builds a model on *)
(* that array and returns Hull-White price minus swaption.npv().  The      *)
(* result holds the value, the array after the write, and which            *)
(* volatility the priced model carried.                                    *)
objectiveOf(s, sigma, volatilityValues, model) ==
    [value            |-> npvHullWhite(s, model, "p").ret.price - npv(s),
     volatilityValues |-> volatilityValues,
     eval             |-> [sigma  |-> sigma,
                           priced |-> model.volatilityValues[1]]]

objectiveWrite(s, c, sigma, volatilityValues) ==
    objectiveOf(s, sigma, volatilityValues,
                HullWhiteModel(c.meanReversion, c.volatilityTimes,
                               volatilityValues))

objective(s, c, sigma) ==
    objectiveWrite(s, c, sigma, [c.volatilityValues EXCEPT ![1] = sigma])

(* The locals after one evaluation of the objective at x.                  *)
evaluatedOf(c, o) ==
    [c EXCEPT !.volatilityValues = o.volatilityValues,
              !.lastEval = o.eval,
              !.lastValue = o.value]

evaluated(s, c, x) == evaluatedOf(c, objective(s, c, x))

(* Lines 119-120: the root is written into the array and the model that    *)
(* is returned is built on it.                                             *)
calibratedOf(c, sigma, volatilityValues) ==
    [op    |-> "HullWhiteModelFromSwaption",
     kind  |-> "model",
     root  |-> sigma,
     model |-> HullWhiteModel(c.meanReversion, c.volatilityTimes,
                              volatilityValues)]

(* calibrated without the write of line 119: the model is built on the    *)
(* array as the last evaluation of the objective left it.                  *)
calibratedNoWrite(c, sigma) == calibratedOf(c, sigma, c.volatilityValues)

calibrated(c, sigma) ==
    calibratedOf(c, sigma, [c.volatilityValues EXCEPT ![1] = sigma])

(* swaptionAfterWrite were the array a view of the swaption's volatility.  *)
swaptionAliased(s, volatilityValues) ==
    [s EXCEPT !.normalVolatility = volatilityValues[1]]

(* The Swaption object after a write volatilityValues[0] = sigma (lines    *)
(* 115 and 119): np.array([swaption.normalVolatility]) copied the number,  *)
(* so the write reaches the local array alone, and the function assigns to *)
(* no attribute of the swaption.                                           *)
swaptionAfterWrite(s, volatilityValues) == s

(* raised with the exception swallowed and a model built on the array as   *)
(* it stands.                                                              *)
raisedFallback(c, error) ==
    calibratedOf(c, c.volatilityValues[1], c.volatilityValues)

(* An exception of the root finder is not caught: it reaches the caller    *)
(* and nothing is returned.                                                *)
raised(c, error) ==
    [op |-> "HullWhiteModelFromSwaption", kind |-> "error", error |-> error]

(* scipy.optimize.brentq, on entry: both ends of the bracket are           *)
(* evaluated; an end where the objective is zero is the root; two ends of  *)
(* the same sign are an error.                                             *)
brentqEntry(fa, fb) ==
    IF fa = 0 THEN "rootAtA"
    ELSE IF fb = 0 THEN "rootAtB"
    ELSE IF Sign(fa) = Sign(fb) THEN "signError"
    ELSE "iterate"

(* scipy.optimize.brentq, head of one iteration: (xcur, xblk) is made the  *)
(* bracket with the smaller |f| at xcur.  p is the record of the three     *)
(* abscissae xpre, xcur, xblk and the objective's values there.            *)
brentqRotate(q) ==
    IF Abs(q.fblk) < Abs(q.fcur)
      THEN [xpre |-> q.xblk, xcur |-> q.xblk, xblk |-> q.xcur,
            fpre |-> q.fblk, fcur |-> q.fblk, fblk |-> q.fcur]
      ELSE q

brentqBracket(p) ==
    brentqRotate(IF p.fpre # 0 /\ p.fcur # 0 /\ Sign(p.fpre) # Sign(p.fcur)
                   THEN [p EXCEPT !.xblk = p.xpre, !.fblk = p.fpre]
                   ELSE p)

(* The iteration ends when the objective is zero at xcur or the bracket is *)
(* shorter than the tolerance.                                             *)
brentqConverged(b) == b.fcur = 0 \/ Abs(b.xblk - b.xcur) < Xtol

(* The next abscissa: the bisection point of the bracket, or a point       *)
(* interpolated from the two ends; always strictly inside the bracket.     *)
brentqSteps(b) ==
    LET d  == b.xblk - b.xcur
        m  == (Abs(b.fcur) * Abs(d)) \div (Abs(b.fblk) + Abs(b.fcur))
        mm == IF m < 1 THEN 1 ELSE IF m > Abs(d) - 1 THEN Abs(d) - 1 ELSE m
    IN  {b.xcur + Sign(d) * (Abs(d) \div 2), b.xcur + Sign(d) * mm}

---------------------------------------------------------------------------
(* State machine.                                                          *)

NoCal == [active |-> FALSE]

NoResult == [op |-> "none"]

Init ==
    /\ swaption = NoSwaption
    /\ pc = "idle"
    /\ cal = NoCal
    /\ result = NoResult
    /\ calls = <<>>

(* A caller constructs a Swaption.                                         *)
Construct ==
    /\ pc = "idle"
    /\ swaption = NoSwaption
    /\ \E sw \in Swaps, lag \in ExpiryLags, vol \in NormalVolatilities :
          swaption' = SwaptionNew(sw, RefDate + lag, vol)
    /\ result' = [op |-> "Swaption", kind |-> "object"]
    /\ calls' = <<>>
    /\ cal' = NoCal
    /\ UNCHANGED pc

(* A caller asks for the bond-option representation.                       *)
BondOptionDetails ==
    /\ pc = "idle"
    /\ swaption # NoSwaption
    /\ result' = [op |-> "bondOptionDetails", kind |-> "details",
                  details |-> bondOptionDetails(swaption)]
    /\ calls' = <<>>
    /\ cal' = NoCal
    /\ UNCHANGED <<swaption, pc>>

(* A caller cross-checks the price with the Bachelier formula.             *)
NpvRaw ==
    /\ pc = "idle"
    /\ swaption # NoSwaption
    /\ result' = [op |-> "npvRaw", kind |-> "price", price |-> npvRaw(swaption)]
    /\ calls' = <<npvRawCall(swaption)>>
    /\ cal' = NoCal
    /\ UNCHANGED <<swaption, pc>>

(* The Hull-White models a caller may hold: single-bucket models built by  *)
(* hand, and the model the last calibration returned.                      *)
CallerModels ==
    {HullWhiteModel(a, <<yearFraction(RefDate, swaption.exercise)>>, <<v>>) :
        a \in MeanReversions, v \in ModelVolatilities}
    \cup (IF result.op = "HullWhiteModelFromSwaption" /\ result.kind = "model"
            THEN {result.model} ELSE {})

(* A caller prices the swaption under a Hull-White model.                  *)
NpvHullWhite ==
    /\ pc = "idle"
    /\ swaption # NoSwaption
    /\ \E hwModel \in CallerModels, outFlag \in OutFlags :
          \E r \in {npvHullWhite(swaption, hwModel, outFlag)} :
              /\ result' = [op |-> "npvHullWhite", outFlag |-> outFlag,
                            hwModel |-> hwModel, ret |-> r.ret]
              /\ calls' = r.calls
    /\ cal' = NoCal
    /\ UNCHANGED <<swaption, pc>>

(* The locals of brentq when it has evaluated both ends of the bracket.    *)
brentqLocals(c0, c1, c2) ==
    [c2 EXCEPT !.active = FALSE] @@
    [fa |-> c1.lastValue, fb |-> c2.lastValue, iter |-> 0,
     p |-> [xpre |-> c0.xa, xcur |-> c0.xb, xblk |-> c0.xa,
            fpre |-> c1.lastValue, fcur |-> c2.lastValue,
            fblk |-> c1.lastValue]]

(* A caller starts a calibration: the locals are set up and brentq         *)
(* evaluates the objective at both ends of the bracket.                    *)
CalibrateStart ==
    /\ pc = "idle"
    /\ swaption # NoSwaption
    /\ \E meanReversion \in MeanReversions :
       \E c0 \in {calibrationLocals(swaption, meanReversion)} :
       \E c1 \in {evaluated(swaption, c0, c0.xa)} :
       \E c2 \in {evaluated(swaption, c1, c0.xb)} :
       \E entry \in {brentqEntry(c1.lastValue, c2.lastValue)} :
       \E done \in {brentqLocals(c0, c1, c2)} :
          /\ swaption' = swaptionAfterWrite(swaption, c2.volatilityValues)
          /\ CASE entry = "rootAtA" ->
                   /\ result' = calibrated(c2, c0.xa)
                   /\ cal' = done
                   /\ pc' = "idle"
               [] entry = "rootAtB" ->
                   /\ result' = calibrated(c2, c0.xb)
                   /\ cal' = done
                   /\ pc' = "idle"
               [] entry = "signError" ->
                   /\ result' = raised(c2, "ValueError")
                   /\ cal' = done
                   /\ pc' = "idle"
               [] entry = "iterate" ->
                   /\ result' = [op |-> "HullWhiteModelFromSwaption",
                                 kind |-> "running"]
                   /\ cal' = [done EXCEPT !.active = TRUE]
                   /\ pc' = "brentq"
    /\ calls' = <<>>

(* One iteration of brentq: return the root, give up after MaxIter         *)
(* iterations, or evaluate the objective at the next abscissa.             *)
BrentqIterate ==
    /\ pc = "brentq"
    /\ \E b \in {brentqBracket(cal.p)} :
           IF cal.iter = MaxIter
             THEN /\ result' = raised(cal, "RuntimeError")
                  /\ cal' = [cal EXCEPT !.active = FALSE]
                  /\ pc' = "idle"
                  /\ UNCHANGED swaption
           ELSE IF brentqConverged(b)
             THEN /\ result' = calibrated(cal, b.xcur)
                  /\ cal' = [cal EXCEPT !.active = FALSE, !.p = b]
                  /\ pc' = "idle"
                  /\ swaption' = swaptionAfterWrite(swaption,
                                     result'.model.volatilityValues)
           ELSE \E x \in brentqSteps(b) :
                \E c \in {evaluated(swaption, cal, x)} :
                  /\ cal' = [c EXCEPT !.iter = cal.iter + 1,
                                !.p = [xpre |-> b.xcur, xcur |-> x,
                                       xblk |-> b.xblk, fpre |-> b.fcur,
                                       fcur |-> c.lastValue,
                                       fblk |-> b.fblk]]
                  /\ swaption' = swaptionAfterWrite(swaption,
                                                    c.volatilityValues)
                  /\ UNCHANGED <<result, pc>>
    /\ UNCHANGED calls

Next ==
    \/ CalibrateStart
    \/ BrentqIterate
    \/ Construct
    \/ BondOptionDetails
    \/ NpvRaw
    \/ NpvHullWhite

Spec == Init /\ [][Next]_vars

---------------------------------------------------------------------------
(* Properties.                                                             *)

DetailsReturned == result.op = "bondOptionDetails"

CalibrationReturned ==
    pc = "idle" /\ result.op = "HullWhiteModelFromSwaption"

NpvHullWhiteReturned == result.op = "npvHullWhite"

floatStartTimes(sw) ==
    [i \in 1..Len(sw.floatingLeg) |->
        yearFraction(sw.refDate, sw.floatingLeg[i].accrualStartDate)]

floatEndTimes(sw) ==
    [i \in 1..Len(sw.floatingLeg) |->
        yearFraction(sw.refDate, sw.floatingLeg[i].accrualEndDate)]

fixedTimes(sw) ==
    [j \in 1..Len(sw.fixedLeg) |-> yearFraction(sw.refDate, sw.fixedLeg[j].date)]

fixedAmounts(sw) == [j \in 1..Len(sw.fixedLeg) |-> sw.fixedLeg[j].amount]

floatCoupons(sw) ==
    [i \in 1..Len(sw.floatingLeg) |-> floatRow(sw.refDate, sw.floatingLeg[i])[2]]

negated(seq) == [i \in 1..Len(seq) |-> -seq[i]]

payerFlag(sw) == IF sw.payerOrReceiver = "Payer" THEN 1 ELSE -1

(* C1, as stated: payTimes is the first floating accrual-start time, then  *)
(* the accrual-END time of every floating period, then the time of every   *)
(* fixed cashflow, then the accrual-end time of the last floating period.  *)
C1_PayTimesUseAccrualEnd ==
    DetailsReturned =>
        LET sw == swaption.underlyingSwap
        IN  result.details.payTimes =
              <<floatStartTimes(sw)[1]>> \o floatEndTimes(sw) \o fixedTimes(sw)
              \o <<floatEndTimes(sw)[Len(sw.floatingLeg)]>>

(* C1, amended: payTimes is the first floating accrual-start time, then    *)
(* the accrual-START time of every floating period, then the time of every *)
(* fixed cashflow, then the accrual-end time of the last floating period;  *)
(* the first floating accrual-start time occupies the first two entries.   *)
C1_PayTimesUseAccrualStart ==
    DetailsReturned =>
        LET sw == swaption.underlyingSwap
        IN  /\ result.details.payTimes =
                 <<floatStartTimes(sw)[1]>> \o floatStartTimes(sw)
                 \o fixedTimes(sw)
                 \o <<floatEndTimes(sw)[Len(sw.floatingLeg)]>>
            /\ result.details.payTimes[1] = result.details.payTimes[2]

(* The details of a swap with two floating periods and a fixed cashflow    *)
(* have been returned.                                                     *)
C1_Witness ==
    /\ DetailsReturned
    /\ Len(swaption.underlyingSwap.floatingLeg) = 2
    /\ Len(swaption.underlyingSwap.fixedLeg) >= 1

(* C2: payTimes and cashFlows both have nFloat + nFixed + 2 entries, and   *)
(* entry by entry they come from the same source: the opening notional     *)
(* exchange, each floating row in leg order, each fixed row in leg order,  *)
(* the closing notional exchange.                                          *)
C2_PairingPreserved ==
    DetailsReturned =>
        LET sw == swaption.underlyingSwap
            d  == result.details
            nFloat == Len(sw.floatingLeg)
            nFixed == Len(sw.fixedLeg)
        IN  /\ Len(d.payTimes) = nFloat + nFixed + 2
            /\ Len(d.cashFlows) = nFloat + nFixed + 2
            /\ Len(d.floatLeg) = nFloat
            /\ Len(d.fixedLeg) = nFixed
            /\ d.payTimes[1] = floatStartTimes(sw)[1]
            /\ d.cashFlows[1] = -sw.floatingLeg[1].nominal
            /\ \A i \in 1..nFloat :
                  /\ d.floatLeg[i][1] = floatStartTimes(sw)[i]
                  /\ <<d.payTimes[1 + i], -d.cashFlows[1 + i]>> = d.floatLeg[i]
            /\ \A j \in 1..nFixed :
                  /\ d.fixedLeg[j] = <<fixedTimes(sw)[j], sw.fixedLeg[j].amount>>
                  /\ <<d.payTimes[1 + nFloat + j], d.cashFlows[1 + nFloat + j]>>
                       = d.fixedLeg[j]
            /\ d.payTimes[nFloat + nFixed + 2] = floatEndTimes(sw)[nFloat]
            /\ d.cashFlows[nFloat + nFixed + 2] = sw.floatingLeg[1].nominal

(* The details of a swap with two floating periods and two fixed cashflows *)
(* have been returned.                                                     *)
C2_Witness ==
    /\ DetailsReturned
    /\ Len(swaption.underlyingSwap.floatingLeg) = 2
    /\ Len(swaption.underlyingSwap.fixedLeg) = 2
    /\ Len(result.details.cashFlows) = 6

(* C3: cashFlows is -N, then minus every synthesized floating coupon, then *)
(* plus every fixed coupon, then +N, N the nominal of the first floating   *)
(* coupon; so the entries add up to the fixed coupons minus the            *)
(* synthesized floating coupons.                                           *)
C3_SignedCashFlows ==
    DetailsReturned =>
        LET sw == swaption.underlyingSwap
            N  == sw.floatingLeg[1].nominal
        IN  /\ result.details.cashFlows =
                 <<-N>> \o negated(floatCoupons(sw)) \o fixedAmounts(sw) \o <<N>>
            /\ SumSeq(result.details.cashFlows) =
                 SumSeq(fixedAmounts(sw)) - SumSeq(floatCoupons(sw))

(* Details whose floating and fixed coupons do not cancel have been        *)
(* returned.                                                               *)
C3_Witness ==
    /\ DetailsReturned
    /\ Len(swaption.underlyingSwap.fixedLeg) = 2
    /\ SumSeq(floatCoupons(swaption.underlyingSwap)) > 0
    /\ SumSeq(result.details.cashFlows) # 0

(* C4: the details have strike 0 and a callOrPut of +1 or -1, +1 exactly   *)
(* for a receiver swap and -1 exactly for a payer swap.                    *)
C4_StrikeAndFlag ==
    DetailsReturned =>
        /\ result.details.strike = 0
        /\ result.details.callOrPut \in {1, -1}
        /\ result.details.callOrPut = 1
             <=> swaption.underlyingSwap.payerOrReceiver = "Receiver"
        /\ result.details.callOrPut = -1
             <=> swaption.underlyingSwap.payerOrReceiver = "Payer"

(* The details of a payer swap struck above the fair rate have been        *)
(* returned.                                                               *)
C4_Witness ==
    /\ DetailsReturned
    /\ swaption.underlyingSwap.payerOrReceiver = "Payer"
    /\ swaption.underlyingSwap.fixedRate > swaption.underlyingSwap.fairRate
    /\ swaption.normalVolatility = 20
    /\ result.details.callOrPut = -1

(* C5: npvHullWhite prices with the callOrPut of the details and inverts   *)
(* with its negative, which is the flag npvRaw hands to Bachelier (+1 for  *)
(* a payer, -1 for a receiver); both use strike = fixed rate and           *)
(* forward = fair rate.                                                    *)
C5_NegatedFlagMatchesNpvRaw ==
    LET sw == swaption.underlyingSwap
    IN  /\ (NpvHullWhiteReturned /\ result.outFlag # "p") =>
              /\ Len(calls) = 2
              /\ calls[1].fn = "couponBondOption"
              /\ calls[1].callOrPut = bondOptionDetails(swaption).callOrPut
              /\ calls[2].fn = "BachelierImpliedVol"
              /\ calls[2].callOrPut = -calls[1].callOrPut
              /\ calls[2].callOrPut = payerFlag(sw)
              /\ calls[2].strike = sw.fixedRate
              /\ calls[2].forward = sw.fairRate
        /\ result.op = "npvRaw" =>
              /\ Len(calls) = 1
              /\ calls[1].fn = "Bachelier"
              /\ calls[1].callOrPut = payerFlag(sw)
              /\ calls[1].strike = sw.fixedRate
              /\ calls[1].forward = sw.fairRate

(* npvHullWhite has returned an implied volatility for a receiver swap.    *)
C5_Witness ==
    /\ NpvHullWhiteReturned
    /\ result.outFlag = "v"
    /\ result.ret.kind = "vol"
    /\ swaption.underlyingSwap.payerOrReceiver = "Receiver"
    /\ calls[2].callOrPut = -1

(* Hull-White price minus swaption.npv() for the returned model with its   *)
(* volatility replaced by x.                                               *)
priceGap(x) ==
    npvHullWhite(swaption, [result.model EXCEPT !.volatilityValues = <<x>>],
                 "p").ret.price - npv(swaption)

(* C6: a returned model has one bucket, the mean reversion asked for, its  *)
(* breakpoint at the expiry time and its volatility equal to the root the  *)
(* solver returned; the root lies in [0.1*sigma0, 5*sigma0]; there the     *)
(* Hull-White price meets swaption.npv() or crosses it within the          *)
(* tolerance; and every evaluation of the objective priced a model that    *)
(* carried the sigma under evaluation.                                     *)
C6_ReturnedModelIsRoot ==
    /\ (pc = "brentq" \/ CalibrationReturned) =>
           cal.lastEval.priced = cal.lastEval.sigma
    /\ (CalibrationReturned /\ result.kind = "model") =>
           /\ result.model.meanReversion = cal.meanReversion
           /\ Len(result.model.volatilityTimes) = 1
           /\ Len(result.model.volatilityValues) = 1
           /\ result.model.volatilityTimes[1] =
                 yearFraction(swaption.underlyingSwap.refDate, swaption.exercise)
           /\ result.model.volatilityValues[1] = result.root
           /\ BracketLowDivisor * result.root >= swaption.normalVolatility
           /\ result.root <= BracketHighFactor * swaption.normalVolatility
           /\ \/ priceGap(result.root) = 0
              \/ \E y \in (result.root - Xtol + 1)..(result.root + Xtol - 1) :
                    Sign(priceGap(y)) = -Sign(priceGap(result.root))

(* A calibration has returned a root that is not the last sigma at which   *)
(* the objective was evaluated.                                            *)
C6_Witness ==
    /\ CalibrationReturned
    /\ result.kind = "model"
    /\ cal.iter > 0
    /\ swaption.normalVolatility > 0
    /\ result.root # cal.lastEval.sigma
    /\ result.model.volatilityValues[1] = result.root

(* C7: when the objective has the same strict sign at both ends of the     *)
(* bracket, or the iterations are used up, the calibration ends with an    *)
(* error and no model: nothing is returned, and no abscissa outside the    *)
(* bracket was tried.                                                      *)
C7_FailsFast ==
    CalibrationReturned =>
        /\ (cal.fa # 0 /\ cal.fb # 0 /\ Sign(cal.fa) = Sign(cal.fb)) =>
              (result.kind = "error" /\ result.error = "ValueError")
        /\ cal.iter = MaxIter =>
              (result.kind = "error" /\ result.error = "RuntimeError")
        /\ result.kind = "error" =>
              /\ DOMAIN result = {"op", "kind", "error"}
              /\ cal.lastEval.sigma \in (cal.xa)..(cal.xb)
              /\ BracketLowDivisor * cal.xa = swaption.normalVolatility
              /\ cal.xb = BracketHighFactor * swaption.normalVolatility

(* A calibration of a swaption with a positive volatility has failed on    *)
(* the signs at the ends of the bracket.                                   *)
C7_Witness ==
    /\ CalibrationReturned
    /\ result.kind = "error"
    /\ result.error = "ValueError"
    /\ swaption.normalVolatility > 0
    /\ cal.fa > 0
    /\ cal.fb > 0

(* C8: a Swaption has a normal volatility > 0 and an exercise date not     *)
(* after the start of its swap; none exists with a volatility <= 0.        *)
C8_VolatilityPositive ==
    swaption # NoSwaption =>
        /\ swaption.normalVolatility > 0
        /\ swaption.exercise <= swaption.underlyingSwap.floatingLeg[1].accrualStartDate

(* C9: no step of a calibration changes the swaption.                      *)
C9_SwaptionNotMutated ==
    [][(pc = "brentq" \/ result'.op = "HullWhiteModelFromSwaption")
          => swaption' = swaption]_vars

(* A calibration has ended after overwriting the volatility array with     *)
(* values other than the swaption's volatility.                            *)
C9_Witness ==
    /\ CalibrationReturned
    /\ cal.iter > 0
    /\ cal.volatilityValues[1] # swaption.normalVolatility
    /\ cal.xb = BracketHighFactor * swaption.normalVolatility

(* C10: npvHullWhite returns the price alone for 'p', the implied          *)
(* volatility alone for 'v' and both for 'pv'; for 'p' the inversion is    *)
(* not made, so a failing inversion fails a 'v' or 'pv' call, leaving no   *)
(* partial result, and never a 'p' call.                                   *)
C10_OutFlagSelectsResult ==
    NpvHullWhiteReturned =>
        LET d     == bondOptionDetails(swaption)
            price == hullWhitePrice(result.hwModel, d)
            inv   == impliedVol(impliedVolCall(swaption, d, price))
        IN  /\ result.outFlag = "p" =>
                  /\ result.ret = [kind |-> "price", price |-> price]
                  /\ Len(calls) = 1
                  /\ calls[1].fn = "couponBondOption"
            /\ (result.outFlag = "v" /\ inv.ok) =>
                  result.ret = [kind |-> "vol", vol |-> inv.vol]
            /\ (result.outFlag = "pv" /\ inv.ok) =>
                  result.ret = [kind |-> "pair", price |-> price, vol |-> inv.vol]
            /\ (result.outFlag # "p" /\ ~inv.ok) =>
                  /\ result.ret.kind = "error"
                  /\ DOMAIN result.ret = {"kind", "error"}

(* A 'p' call has returned a price that the inversion would reject.        *)
C10_Witness ==
    /\ NpvHullWhiteReturned
    /\ result.outFlag = "p"
    /\ result.ret.kind = "price"
    /\ ~impliedVol(impliedVolCall(swaption, bondOptionDetails(swaption),
                                  result.ret.price)).ok

===========================================================================
